---- MODULE Spec2Model ----
(***************************************************************************)
(* createDataset of tools/create_dataset.py: the ingestion loop that turns *)
(* a list of (image path, label, lexicon) rows into records of an LMDB     *)
(* container, with the image validity check, the batching of the writes    *)
(* and the final 'num-samples' record.                                     *)
(*                                                                         *)
(* A dict is a function from its keys to its values.                       *)
(*                                                                         *)
(* createDataset reads entry i of its argument lists in iteration i of its *)
(* loop and nowhere else, so the model draws entry i when iteration i      *)
(* starts: `rows` is imagePathList/labelList/lexiconList[0 .. i-1], and    *)
(* the list ends (i = nSamples) when Finish is taken. imagePathList and    *)
(* labelList have one length (line 40) and nothing else is checked: a path *)
(* may name a directory, a label may be None, and an entry of lexiconList  *)
(* may be missing or be no lexicon.                                        *)
(***************************************************************************)
EXTENDS Integers, Sequences, FiniteSets, TLC

VARIABLES
    checkValid,    \* argument checkValid
    lexiconGiven,  \* truth value of the argument lexiconList (a non-empty list)
    opened,        \* the container's content when lmdb.open returned
    nBulk,         \* number of leading rows of the lists that are bulk rows
    rows,          \* the entries of the argument lists the loop has read
    pc,            \* "loop", "done" (returned) or "raised" (left by an exception)
    error,         \* the exception that ended the run, "none" if none
    raisedIn,      \* the function that exception was raised in, "none" if none
    binding,       \* the build of lmdb the run has shown to use: "cpython",
                   \* "cffi", or "undetermined"
    cnt,           \* local cnt
    cache,         \* local cache
    env,           \* content of the container
    flushes,       \* completed writeCache calls of the loop body (line 66)
    lastBatch      \* the dict handed to the latest writeCache call

vars == <<checkValid, lexiconGiven, opened, nBulk, rows, pc, error, raisedIn,
          binding, cnt, cache, env, flushes, lastBatch>>

-----------------------------------------------------------------------------
(* Bounds and program constants *)

MaxLen == 2

BatchSize == 1000

KeyWidth == 9

-----------------------------------------------------------------------------
(* str, bytes and their conversions *)

\* A str is the TLA+ string of its characters; a bytes object is the TLA+
\* string of its literal, b'...' (every text of the model is ASCII, which
\* UTF-8 encodes to the same code units). A value of the cache carries its
\* Python type, which writeCache tests.
StrValue(s) == [type |-> "str", data |-> s]
BytesValue(b) == [type |-> "bytes", data |-> b]
NoneValue == [type |-> "NoneType", data |-> "None"]

\* s.encode('utf-8') for an ASCII str s
Utf8(s) == "b'" \o s \o "'"

\* b.decode('utf-8'): the str a key of the container was encoded from
Utf8Decode(b) == SubSeq(b, 3, Len(b) - 1)

DigitChar == <<"0", "1", "2", "3", "4", "5", "6", "7", "8", "9">>

RECURSIVE Str(_)
\* str(n) for n >= 0
Str(n) ==
    IF n < 10 THEN DigitChar[n + 1]
    ELSE Str(n \div 10) \o DigitChar[(n % 10) + 1]

RECURSIVE Zeros(_)
Zeros(k) == IF k <= 0 THEN "" ELSE "0" \o Zeros(k - 1)

\* the format specification 0<w>d applied to the digits s
ZeroPad(s, w) == Zeros(w - Len(s)) \o s

\* a key format one digit short
Format08d(n) == ZeroPad(Str(n), KeyWidth - 1)

\* a key format that numbers the rows of each batch anew
Format09dWrapped(n) == ZeroPad(Str(n % BatchSize), KeyWidth)

\* f'{n:09d}'
Format09d(n) == ZeroPad(Str(n), KeyWidth)

RECURSIVE Join(_, _)
\* sep.join(items)
Join(sep, items) ==
    IF items = <<>> THEN ""
    ELSE IF Len(items) = 1 THEN items[1]
    ELSE items[1] \o sep \o Join(sep, Tail(items))

-----------------------------------------------------------------------------
(* The files and the decoder *)

\* the files on disk: path -> content; a path outside the domain does not exist
FileSystem ==
    ("a.png" :> "b'PNG 3x5'") @@
    ("b.png" :> "b'PNG 4x6'") @@
    ("bad.png" :> "b'not an image'") @@
    ("empty.png" :> "b''")

\* the encoded images the decoder reads, with the shape (height, width) of each
Rasters == ("b'PNG 3x5'" :> <<3, 5>>) @@ ("b'PNG 4x6'" :> <<4, 6>>) @@
           ("b'PNG 7x7'" :> <<7, 7>>) @@ ("b'PNG 8x8'" :> <<8, 8>>)

\* the directories on disk: os.path.join(image_prefix, '') of load_csv
Directories == {"datasets/IIIT5K/"}

\* os.path.exists(path)
PathExists(path) == path \in DOMAIN FileSystem \/ path \in Directories

\* cv2.imdecode(np.frombuffer(imageBin), IMREAD_GRAYSCALE): a raster with its
\* shape, None when the bytes are no image; on an empty buffer cv2.error is
\* raised, or None returned by the builds that do not raise (see RaisedBy)
imdecode(imageBin) ==
    IF imageBin = "b''" THEN [kind |-> "cv2.error", shape |-> <<0, 0>>]
    ELSE IF imageBin \in DOMAIN Rasters
         THEN [kind |-> "raster", shape |-> Rasters[imageBin]]
         ELSE [kind |-> "None", shape |-> <<0, 0>>]

\* "True", "False", or the name of the exception the call raises: img.shape on
\* None raises AttributeError
checkImageIsValid(imageBin) ==
    LET img == imdecode(imageBin) IN
    IF img.kind = "cv2.error" THEN "cv2.error"
    ELSE IF img.kind = "None" THEN "AttributeError"
    ELSE IF img.shape[1] * img.shape[2] = 0 THEN "False"
    ELSE "True"

\* the exceptions a raising call of checkImageIsValid may leave by: on an empty
\* buffer cv2.error from imdecode, or AttributeError from img.shape when the
\* build's imdecode returns None instead
RaisedBy(v) == IF v = "cv2.error" THEN {"cv2.error", "AttributeError"} ELSE {v}

-----------------------------------------------------------------------------
(* The rows of the argument lists *)

\* `label` is labelList[i], a str or None (what load_csv yields for a manifest
\* row that ends before GroundTruth), stored as it is by line 61. `entry` is what lexiconList[i] is for the
\* row: "items", an iterable of str (the words of a list, or the characters of
\* a str, what load_csv passes on), whose items `lexicon` lists; "None" (what
\* load_csv yields for a manifest row that ends before the column); "ints", a
\* list of items that are no str, listed by their digits; "absent",
\* lexiconList being no longer than i
RowA == [path |-> "a.png", label |-> StrValue("cat"),
         lexicon |-> <<"cat", "cot">>, entry |-> "items"]
RowB == [path |-> "b.png", label |-> StrValue("dog"), lexicon |-> <<>>,
         entry |-> "items"]
RowGone == [path |-> "gone.png", label |-> StrValue("cat"),
            lexicon |-> <<"cat">>, entry |-> "items"]
RowBad == [path |-> "bad.png", label |-> StrValue("dog"),
           lexicon |-> <<"d", "o", "g">>, entry |-> "items"]
RowEmpty == [path |-> "empty.png", label |-> StrValue("cat"), lexicon |-> <<>>,
             entry |-> "items"]
RowShort == [path |-> "b.png", label |-> StrValue("dog"), lexicon |-> <<>>,
             entry |-> "None"]
RowInts == [path |-> "a.png", label |-> StrValue("cat"),
            lexicon |-> <<"1", "2">>, entry |-> "ints"]
RowPast == [path |-> "b.png", label |-> StrValue("dog"), lexicon |-> <<>>,
            entry |-> "absent"]
\* a manifest without lexicon columns, the row ends before GroundTruth
RowNoLabel == [path |-> "b.png", label |-> NoneValue, lexicon |-> <<>>,
               entry |-> "items"]
\* a manifest with lexicon columns, the row ends before GroundTruth
RowBare == [path |-> "b.png", label |-> NoneValue, lexicon |-> <<>>,
            entry |-> "None"]
\* a manifest row with an empty ImgName: the path is the image prefix
RowDir == [path |-> "datasets/IIIT5K/", label |-> StrValue("cat"),
           lexicon |-> <<>>, entry |-> "items"]

\* the rows an entry of the lists is drawn from
FreeRows == {RowA, RowB, RowGone, RowBad, RowEmpty, RowShort, RowInts, RowPast,
             RowNoLabel, RowBare, RowDir}

\* entry i (from 0) of the bulk prefix of the lists: valid images, alternating
BulkRow(i) == IF i % 2 = 0 THEN RowA ELSE RowB

\* lengths of the bulk prefix: none, one row, and one row short of one and of
\* two full batches
BulkCounts == {0, 1, BatchSize - 1, 2 * BatchSize - 1}

-----------------------------------------------------------------------------
(* createDataset *)

NumSamplesKey == "num-samples"

imageKey(n) == "image-" \o Format09d(n)
labelKey(n) == "label-" \o Format09d(n)
lexiconKey(n) == "lexicon-" \o Format09d(n)

\* the validity check made whatever checkValid is
RowVerdictAlwaysChecked(r, cv) ==
    IF ~PathExists(r.path) THEN "missing"
    ELSE IF r.path \in Directories THEN "IsADirectoryError"
    ELSE LET v == checkImageIsValid(FileSystem[r.path]) IN
         IF v = "True" THEN "accept"
         ELSE IF v = "False" THEN "invalid"
         ELSE v

\* lines 48-56: what the loop body decides about a row before staging it:
\* "missing", "invalid", "accept", or the name of the exception raised (by
\* open on a directory, or by the validity check)
RowVerdict(r, cv) ==
    IF ~PathExists(r.path) THEN "missing"
    ELSE IF r.path \in Directories THEN "IsADirectoryError"
    ELSE IF cv
         THEN LET v == checkImageIsValid(FileSystem[r.path]) IN
              IF v = "True" THEN "accept"
              ELSE IF v = "False" THEN "invalid"
              ELSE v
         ELSE "accept"

\* the path staged in place of the label
StagedPathAsLabel(c, r, n, lex) ==
    LET withImage == (imageKey(n) :> BytesValue(FileSystem[r.path])) @@ c
        withLabel == (labelKey(n) :> StrValue(r.path)) @@ withImage
    IN  IF lex
        THEN (lexiconKey(n) :> StrValue(Join(" ", r.lexicon))) @@ withLabel
        ELSE withLabel

\* the lexicon record staged only for a row whose own lexicon is not empty
StagedLexiconIfNonEmpty(c, r, n, lex) ==
    LET withImage == (imageKey(n) :> BytesValue(FileSystem[r.path])) @@ c
        withLabel == (labelKey(n) :> r.label) @@ withImage
    IN  IF lex /\ r.lexicon # <<>>
        THEN (lexiconKey(n) :> StrValue(Join(" ", r.lexicon))) @@ withLabel
        ELSE withLabel

\* 'num-samples' staged with every row, as the count so far
StagedWithRunningCount(c, r, n, lex) ==
    LET withImage == (imageKey(n) :> BytesValue(FileSystem[r.path])) @@ c
        withLabel == (labelKey(n) :> r.label) @@ withImage
        withCount == (NumSamplesKey :> StrValue(Str(n))) @@ withLabel
    IN  IF lex
        THEN (lexiconKey(n) :> StrValue(Join(" ", r.lexicon))) @@ withCount
        ELSE withCount

\* line 64, lexiconList[i] and ' '.join of it: "none" or the exception raised,
\* IndexError by the subscript, TypeError by join on None or on an item that
\* is no str
LexiconRaise(r) ==
    IF r.entry = "absent" THEN "IndexError"
    ELSE IF r.entry \in {"None", "ints"} THEN "TypeError"
    ELSE "none"

\* lines 62-64 raise for the row: lexiconList is true and the entry fails
Line64Raises(r, lex) == lex /\ LexiconRaise(r) # "none"

\* lines 58-61: the cache after image and label of row r are staged under n
StagedImageLabel(c, r, n) ==
    (labelKey(n) :> r.label) @@
    (imageKey(n) :> BytesValue(FileSystem[r.path])) @@ c

\* lines 58-64 without an exception: the cache after the records of row r are
\* staged under index n
Staged(c, r, n, lex) ==
    LET withImage == (imageKey(n) :> BytesValue(FileSystem[r.path])) @@ c
        withLabel == (labelKey(n) :> r.label) @@ withImage
    IN  IF lex
        THEN (lexiconKey(n) :> StrValue(Join(" ", r.lexicon))) @@ withLabel
        ELSE withLabel

\* the flush test made on the rows accepted before this one
FlushDueOffByOne(n) == (n - 1) % BatchSize = 0

\* line 65
FlushDue(n) == n % BatchSize = 0

\* the final count taken as cnt
FinalCountOffByOne(n) == n

\* line 70
FinalCount(n) == n - 1

\* lines 70-71: the cache handed to the final writeCache
FinalCache(c, n) == (NumSamplesKey :> StrValue(Str(FinalCount(n)))) @@ c

\* lines 24-26: the value txn.put stores: a str encoded, bytes as they are,
\* and for None, which the C extension of lmdb takes as the argument left
\* out, the empty value
EncodeValue(v) ==
    IF v.type = "str" THEN Utf8(v.data)
    ELSE IF v.type = "NoneType" THEN "b''"
    ELSE v.data

\* lines 20-26, the transaction committed: every item of the cache is put under
\* its encoded key, replacing the value of a key the container holds
writeCache(e, c) ==
    LET keys == {Utf8(k) : k \in DOMAIN c}
        put == [b \in keys |-> EncodeValue(c[Utf8Decode(b)])]
    IN  put @@ e

\* the cache holds a value that is None
HasNone(c) == {k \in DOMAIN c : c[k].type = "NoneType"} # {}

\* line 26, txn.put(key, None): the C extension of lmdb stores the empty
\* value, its CFFI build raises TypeError (len of None). A run uses one build
\* throughout, and which one shows only at its first commit of a None value:
\* `binding` is drawn there. This is the binding after writeCache(env, c)
\* has returned
BindingAfterCommit(b, c) == IF HasNone(c) THEN "cpython" ELSE b

\* the exceptions a failing writeCache(env, c) may leave by: an error of lmdb
\* (map full, disk error), or the TypeError of txn.put in the CFFI build
CommitErrors(b, c) ==
    {"lmdb.Error"} \cup
    (IF HasNone(c) /\ b # "cpython" THEN {"TypeError"} ELSE {})

\* the binding after writeCache(env, c) has raised err
BindingAfterRaise(b, err) == IF err = "TypeError" THEN "cffi" ELSE b

\* puts made without a transaction: the items put before the failure stay
PartialTxn(e, c) ==
    writeCache(e, [k \in {x \in DOMAIN c : c[x].type = "bytes"} |-> c[k]])

\* lines 20-26, an exception inside the with block: the transaction is aborted and the container keeps its content
AbortedTxn(e, c) == e

\* a container a completed earlier run left at outputPath
PriorRows ==
    << [bytes |-> "b'PNG 7x7'", label |-> "cot", lexicon |-> <<"dog">>],
       [bytes |-> "b'PNG 8x8'", label |-> "cot", lexicon |-> <<"dog", "cot">>] >>

PriorContainer ==
    LET rec(n) ==
            (imageKey(n) :> BytesValue(PriorRows[n].bytes)) @@
            (labelKey(n) :> StrValue(PriorRows[n].label)) @@
            (lexiconKey(n) :> StrValue(Join(" ", PriorRows[n].lexicon)))
    IN  writeCache(<<>>, FinalCache(rec(1) @@ rec(2), 3))

EmptyContainer == <<>>

Init ==
    /\ checkValid \in BOOLEAN
    /\ lexiconGiven \in BOOLEAN
    /\ opened \in {EmptyContainer, PriorContainer}
    /\ nBulk \in BulkCounts
    /\ rows = <<>>
    /\ pc = "loop"
    /\ error = "none"
    /\ raisedIn = "none"
    /\ binding = "undetermined"
    /\ cnt = 1
    /\ cache = <<>>
    /\ env = opened
    /\ flushes = 0
    /\ lastBatch = <<>>

\* the rows entry Len(rows) of the lists may be. A lexiconList that is true
\* has an entry 0; without one no entry is ever read, and the rows are drawn
\* with the entries "items" only (the others differ in nothing that is read)
NextRows ==
    IF Len(rows) < nBulk THEN {BulkRow(Len(rows))}
    ELSE IF Len(rows) < nBulk + MaxLen
         THEN {r \in FreeRows :
                 /\ r.entry = "absent" => Len(rows) > 0
                 /\ r.entry # "items" => lexiconGiven}
         ELSE {}

\* lines 48-50 and 53-56: the row is skipped, cnt stays
SkipRow ==
    /\ pc = "loop"
    /\ \E r \in NextRows :
        /\ RowVerdict(r, checkValid) \in {"missing", "invalid"}
        /\ rows' = Append(rows, r)
    /\ UNCHANGED <<checkValid, lexiconGiven, opened, nBulk, pc, error, raisedIn,
                   binding, cnt, cache, env, flushes, lastBatch>>

\* line 51: open raises on a path that exists and is no file, and the
\* exception leaves createDataset
OpenRaises ==
    /\ pc = "loop"
    /\ \E r \in NextRows :
        /\ RowVerdict(r, checkValid) = "IsADirectoryError"
        /\ rows' = Append(rows, r)
        /\ error' = RowVerdict(r, checkValid)
    /\ pc' = "raised"
    /\ raisedIn' = "createDataset"
    /\ UNCHANGED <<checkValid, lexiconGiven, opened, nBulk, binding, cnt, cache,
                   env, flushes, lastBatch>>

\* line 54: checkImageIsValid raises and the exception leaves createDataset
ValidityCheckRaises ==
    /\ pc = "loop"
    /\ \E r \in NextRows :
        /\ RowVerdict(r, checkValid) \in {"AttributeError", "cv2.error"}
        /\ rows' = Append(rows, r)
        /\ error' \in RaisedBy(RowVerdict(r, checkValid))
    /\ pc' = "raised"
    /\ raisedIn' = "checkImageIsValid"
    /\ UNCHANGED <<checkValid, lexiconGiven, opened, nBulk, binding, cnt, cache,
                   env, flushes, lastBatch>>

\* lines 58-64: image and label are staged, then line 64 raises and the
\* exception leaves createDataset; cnt stays and nothing is committed
LexiconRaises ==
    /\ pc = "loop"
    /\ \E r \in NextRows :
        /\ RowVerdict(r, checkValid) = "accept"
        /\ Line64Raises(r, lexiconGiven)
        /\ rows' = Append(rows, r)
        /\ cache' = StagedImageLabel(cache, r, cnt)
        /\ error' = LexiconRaise(r)
    /\ pc' = "raised"
    /\ raisedIn' = "createDataset"
    /\ UNCHANGED <<checkValid, lexiconGiven, opened, nBulk, binding, cnt, env,
                   flushes, lastBatch>>

\* lines 58-69 when cnt is no multiple of 1000
StageRow ==
    /\ pc = "loop"
    /\ ~FlushDue(cnt)
    /\ \E r \in NextRows :
        /\ RowVerdict(r, checkValid) = "accept"
        /\ ~Line64Raises(r, lexiconGiven)
        /\ rows' = Append(rows, r)
        /\ cache' = Staged(cache, r, cnt, lexiconGiven)
    /\ cnt' = cnt + 1
    /\ UNCHANGED <<checkValid, lexiconGiven, opened, nBulk, pc, error, raisedIn,
                   binding, env, flushes, lastBatch>>

\* lines 58-69 when cnt is a multiple of 1000 and the transaction commits
StageAndFlush ==
    /\ pc = "loop"
    /\ binding # "cffi"
    /\ FlushDue(cnt)
    /\ \E r \in NextRows :
        /\ RowVerdict(r, checkValid) = "accept"
        /\ ~Line64Raises(r, lexiconGiven)
        /\ rows' = Append(rows, r)
        /\ lastBatch' = Staged(cache, r, cnt, lexiconGiven)
    /\ env' = writeCache(env, lastBatch')
    /\ binding' = BindingAfterCommit(binding, lastBatch')
    /\ cache' = <<>>
    /\ flushes' = flushes + 1
    /\ cnt' = cnt + 1
    /\ UNCHANGED <<checkValid, lexiconGiven, opened, nBulk, pc, error, raisedIn>>

\* lines 58-66 when cnt is a multiple of 1000 and the transaction fails
FlushRaises ==
    /\ pc = "loop"
    /\ FlushDue(cnt)
    /\ \E r \in NextRows :
        /\ RowVerdict(r, checkValid) = "accept"
        /\ ~Line64Raises(r, lexiconGiven)
        /\ rows' = Append(rows, r)
        /\ lastBatch' = Staged(cache, r, cnt, lexiconGiven)
    /\ cache' = lastBatch'
    /\ env' = AbortedTxn(env, lastBatch')
    /\ pc' = "raised"
    /\ error' \in CommitErrors(binding, lastBatch')
    /\ binding' = BindingAfterRaise(binding, error')
    /\ raisedIn' = "writeCache"
    /\ UNCHANGED <<checkValid, lexiconGiven, opened, nBulk, cnt, flushes>>

\* lines 70-73 after the last row, the final transaction commits
Finish ==
    /\ pc = "loop"
    /\ binding # "cffi"
    /\ Len(rows) >= nBulk
    /\ lastBatch' = FinalCache(cache, cnt)
    /\ cache' = lastBatch'
    /\ env' = writeCache(env, lastBatch')
    /\ binding' = BindingAfterCommit(binding, lastBatch')
    /\ pc' = "done"
    /\ UNCHANGED <<checkValid, lexiconGiven, opened, nBulk, rows, error,
                   raisedIn, cnt, flushes>>

\* lines 70-72 after the last row, the final transaction fails
FinishRaises ==
    /\ pc = "loop"
    /\ Len(rows) >= nBulk
    /\ lastBatch' = FinalCache(cache, cnt)
    /\ cache' = lastBatch'
    /\ env' = AbortedTxn(env, lastBatch')
    /\ pc' = "raised"
    /\ error' \in CommitErrors(binding, lastBatch')
    /\ binding' = BindingAfterRaise(binding, error')
    /\ raisedIn' = "writeCache"
    /\ UNCHANGED <<checkValid, lexiconGiven, opened, nBulk, rows, cnt, flushes>>

Next ==
    \/ SkipRow
    \/ OpenRaises
    \/ ValidityCheckRaises
    \/ LexiconRaises
    \/ StageRow
    \/ StageAndFlush
    \/ FlushRaises
    \/ Finish
    \/ FinishRaises

Spec == Init /\ [][Next]_vars

-----------------------------------------------------------------------------
(* What the properties speak of, stated apart from createDataset's own code *)

\* the bytes decode to a raster of non-zero area
Decodes(imageBin) ==
    /\ imageBin \in DOMAIN Rasters
    /\ Rasters[imageBin][1] * Rasters[imageBin][2] # 0

\* the row passes the existence check and, if enabled, the validity check
Passed(r) ==
    /\ r.path \in DOMAIN FileSystem
    /\ checkValid => Decodes(FileSystem[r.path])

\* the accepted rows, in input order
AcceptedRows == SelectSeq(rows, Passed)

\* the bytes object with the code units of the ASCII text s
Bytes(s) == "b'" \o s \o "'"

\* the numbers 0..999 written with exactly three decimal digits
ThreeDigits ==
    [n \in 0..999 |->
        DigitChar[(n \div 100) + 1] \o DigitChar[((n \div 10) % 10) + 1]
            \o DigitChar[(n % 10) + 1]]

\* the index i written with exactly nine decimal digits
NineDigits(i) ==
    ThreeDigits[(i \div 1000000) % 1000] \o ThreeDigits[(i \div 1000) % 1000]
        \o ThreeDigits[i % 1000]

\* the indices a run of the model can reach
StoreIndex == 1..(2 * BatchSize + MaxLen + 1)

\* the keys of the records, by index: the prefix, the index with nine digits
ImageKeyText == [i \in StoreIndex |-> "image-" \o NineDigits(i)]
LabelKeyText == [i \in StoreIndex |-> "label-" \o NineDigits(i)]
LexiconKeyText == [i \in StoreIndex |-> "lexicon-" \o NineDigits(i)]

\* the same keys as the container holds them
ImageStoreKey == [i \in StoreIndex |-> Bytes(ImageKeyText[i])]
LabelStoreKey == [i \in StoreIndex |-> Bytes(LabelKeyText[i])]
LexiconStoreKey == [i \in StoreIndex |-> Bytes(LexiconKeyText[i])]

\* the decimal strings of the counts a run of the model can reach
Decimal == [n \in 0..(2 * BatchSize + MaxLen + 1) |-> Str(n)]

NumSamplesStoreKey == Bytes("num-samples")

\* the keys of the image and label records of the indices lo..hi, and of their
\* lexicon records if lex
StoreKeys(lo, hi, lex) ==
    {ImageStoreKey[i] : i \in lo..hi} \cup
    {LabelStoreKey[i] : i \in lo..hi} \cup
    (IF lex THEN {LexiconStoreKey[i] : i \in lo..hi} ELSE {})

\* the number the 'num-samples' record of the container states
NumSamples ==
    CHOOSE n \in 0..(Len(rows) + 1) : env[NumSamplesStoreKey] = Bytes(Decimal[n])

\* the key is in the container with the value it had when the container was opened
AsOpened(k) == k \in DOMAIN env /\ k \in DOMAIN opened /\ env[k] = opened[k]

-----------------------------------------------------------------------------
(* C1: when createDataset has run to completion, the value stored under     *)
(* 'num-samples' is the decimal string of the number of input rows that     *)
(* passed the existence check and, if enabled, the validity check.          *)
C1_NumSamplesIsAcceptedCount ==
    pc = "done" =>
        /\ NumSamplesStoreKey \in DOMAIN env
        /\ env[NumSamplesStoreKey] = Bytes(Decimal[Len(AcceptedRows)])

\* three rows, the second one skipped, and the run completed with "2"
C1_Witness ==
    /\ pc = "done"
    /\ checkValid
    /\ Len(rows) = 3
    /\ ~PathExists(rows[2].path)
    /\ env[NumSamplesStoreKey] = Bytes("2")

(* C2: after a completed run, for every i in 1..num-samples the keys        *)
(* 'image-<i>' and 'label-<i>' with i zero-padded to 9 digits are in the    *)
(* container, and the indices the run wrote are exactly 1..num-samples: the *)
(* keys of the container are those, 'num-samples' and the keys it held when *)
(* opened, and a record of another index is as it was when opened.          *)
C2_IndicesDense ==
    pc = "done" =>
        LET n == NumSamples
            runKeys == StoreKeys(1, n, lexiconGiven) \cup {NumSamplesStoreKey}
            anyRunKey == StoreKeys(1, n, TRUE) \cup {NumSamplesStoreKey}
        IN  /\ StoreKeys(1, n, FALSE) \subseteq DOMAIN env
            /\ DOMAIN env = runKeys \cup DOMAIN opened
            /\ \A k \in DOMAIN opened : k \notin anyRunKey => env[k] = opened[k]

\* a skipped row between two accepted rows consumed no index
C2_Witness ==
    /\ pc = "done"
    /\ opened = EmptyContainer
    /\ ~lexiconGiven
    /\ rows = <<RowA, RowGone, RowB>>
    /\ DOMAIN env = {Bytes("image-000000001"), Bytes("label-000000001"),
                     Bytes("image-000000002"), Bytes("label-000000002"),
                     Bytes("num-samples")}

C4_LexiconIffRowLexiconNonEmpty ==
    (pc = "done" /\ opened = EmptyContainer) =>
        LET acc == AcceptedRows IN
        \A i \in 1..Len(acc) :
            LexiconStoreKey[i] \in DOMAIN env
                <=> (lexiconGiven /\ acc[i].lexicon # <<>>)

(* C4, amended: after a completed run, for every i in 1..num-samples the    *)
(* run writes 'lexicon-<i>' if and only if the argument lexiconList is a    *)
(* non-empty list, and then for every accepted row, with the items of the   *)
(* row's lexicon joined by single spaces (the empty string for an empty     *)
(* lexicon); otherwise the key is there only as it was when the container   *)
(* was opened.                                                               *)
C4_LexiconIffListGiven ==
    pc = "done" =>
        LET acc == AcceptedRows IN
        \A i \in 1..Len(acc) :
            LET lexicon == LexiconStoreKey[i] IN
            IF lexiconGiven
            THEN /\ lexicon \in DOMAIN env
                 /\ env[lexicon] = Bytes(Join(" ", acc[i].lexicon))
            ELSE lexicon \in DOMAIN env => AsOpened(lexicon)

\* an accepted row with an empty lexicon got a lexicon record, the empty string
C4_Witness ==
    /\ pc = "done"
    /\ lexiconGiven
    /\ opened = EmptyContainer
    /\ rows = <<RowA, RowB>>
    /\ env[Bytes("lexicon-000000001")] = Bytes("cat cot")
    /\ env[Bytes("lexicon-000000002")] = Bytes("")

(* C5: with checkValid enabled, a row whose file exists but whose bytes do  *)
(* not decode to a raster is judged invalid and skipped: the run goes on,   *)
(* so no run ends by an exception raised in the validity check.             *)
C5_UndecodableRowIsSkipped ==
    (/\ checkValid
     /\ rows # <<>>
     /\ rows[Len(rows)].path \in DOMAIN FileSystem
     /\ ~Decodes(FileSystem[rows[Len(rows)].path]))
        => raisedIn # "checkImageIsValid"

(* C6, as claimed: at every point of a run before the final commit has      *)
(* completed, the container holds no 'num-samples' record.                  *)
C6_NoNumSamplesBeforeFinalCommit ==
    pc # "done" => NumSamplesStoreKey \notin DOMAIN env

(* C6, amended: at every point of a run before the final commit has         *)
(* completed, the 'num-samples' record of the container is as it was when   *)
(* the run opened the container: absent if the container held none then,    *)
(* the record of the earlier run otherwise.                                  *)
C6_NumSamplesAsOpenedBeforeFinalCommit ==
    pc # "done" =>
        /\ NumSamplesStoreKey \in DOMAIN env <=> NumSamplesStoreKey \in DOMAIN opened
        /\ NumSamplesStoreKey \in DOMAIN env => AsOpened(NumSamplesStoreKey)

\* the run, on a container empty when opened, is past an intermediate commit
\* and the container holds image records but no 'num-samples'
C6_Witness ==
    /\ pc = "loop"
    /\ opened = EmptyContainer
    /\ flushes = 1
    /\ ImageStoreKey[BatchSize] \in DOMAIN env
    /\ NumSamplesStoreKey \notin DOMAIN env

BatchHolds(b, lo, hi, final, n) ==
    LET acc == AcceptedRows
        keys == {ImageKeyText[i] : i \in lo..hi} \cup
                {LabelKeyText[i] : i \in lo..hi} \cup
                (IF lexiconGiven THEN {LexiconKeyText[i] : i \in lo..hi} ELSE {})
    IN  /\ DOMAIN b = keys \cup (IF final THEN {"num-samples"} ELSE {})
        /\ \A i \in lo..hi :
            /\ b[ImageKeyText[i]] = BytesValue(FileSystem[acc[i].path])
            /\ b[LabelKeyText[i]] = acc[i].label
            /\ lexiconGiven =>
                b[LexiconKeyText[i]] = StrValue(Join(" ", acc[i].lexicon))
        /\ final => b["num-samples"] = StrValue(Decimal[n])

(* C8: while a run goes on and when it has completed, the intermediate      *)
(* commits made are floor(accepted rows / 1000), so one happens exactly     *)
(* each time the accepted rows reach a multiple of 1000; it holds exactly   *)
(* the records of the 1000 rows accepted since the previous commit and      *)
(* leaves the buffer empty; the final commit holds the records of the rows  *)
(* accepted since and 'num-samples', hence 'num-samples' alone when the     *)
(* accepted rows are a multiple of 1000.                                     *)
C8_Batching ==
    pc \in {"loop", "done"} =>
        LET n == Len(AcceptedRows) IN
        /\ flushes = n \div BatchSize
        /\ (pc = "loop" /\ n > 0 /\ n % BatchSize = 0) =>
            /\ cache = <<>>
            /\ BatchHolds(lastBatch, n - BatchSize + 1, n, FALSE, n)
        /\ pc = "done" =>
            /\ BatchHolds(lastBatch, flushes * BatchSize + 1, n, TRUE, n)
            /\ n % BatchSize = 0 => DOMAIN lastBatch = {"num-samples"}

\* exactly 1000 accepted rows: one intermediate commit, and a final commit of
\* 'num-samples' alone
C8_Witness ==
    /\ pc = "done"
    /\ flushes = 1
    /\ Len(rows) > BatchSize
    /\ DOMAIN lastBatch = {"num-samples"}
    /\ lastBatch["num-samples"] = StrValue("1000")
    /\ env[NumSamplesStoreKey] = "b'1000'"

\* the container holds every item of the dict b
HoldsAllOf(b) ==
    \A k \in DOMAIN b :
        /\ Bytes(k) \in DOMAIN env
        /\ env[Bytes(k)] = (IF b[k].type = "str" THEN Bytes(b[k].data)
                            ELSE IF b[k].type = "NoneType" THEN Bytes("")
                            ELSE b[k].data)

(* C9: if a commit to the container fails, the run aborts: it is left by   *)
(* the exception raised in the commit (an error of lmdb, or the TypeError   *)
(* of a put that refuses None), no later row is processed and no later      *)
(* commit is attempted (nothing changes any more), the failing batch is in  *)
(* the container entirely or not at all, and every record an earlier flush  *)
(* of the run committed is in the container as it was before the failing    *)
(* commit.                                                                  *)
C9_FailedCommitAborts ==
    [][raisedIn' = "writeCache" =>
        IF raisedIn = "writeCache" THEN UNCHANGED vars
        ELSE /\ pc' = "raised"
             /\ error' \in {"lmdb.Error", "TypeError"}
             /\ \/ env' = env
                \/ /\ HoldsAllOf(lastBatch)'
                   /\ \A k \in DOMAIN env :
                        ~AsOpened(k) => k \in DOMAIN env' /\ env'[k] = env[k]
      ]_vars

\* the final commit failed after an intermediate commit had succeeded
C9_Witness ==
    /\ pc = "raised"
    /\ error = "lmdb.Error"
    /\ raisedIn = "writeCache"
    /\ flushes = 1
    /\ Len(rows) = BatchSize + 1
    /\ "image-000001001" \in DOMAIN lastBatch
    /\ "b'image-000001001'" \notin DOMAIN env
    /\ "b'image-000001000'" \in DOMAIN env

(* C10, as claimed: no commit of the run changes or deletes the value of a  *)
(* key already present in the container, be it written by an earlier commit *)
(* of the run or present when the run opened the container.                 *)
C10_NoKeyEverChanged ==
    [][\A k \in DOMAIN env : k \in DOMAIN env' /\ env'[k] = env[k]]_vars

(* C10, amended: no commit of the run changes or deletes a record that an   *)
(* earlier commit of the same run wrote; a record present when the run      *)
(* opened the container is replaced when the run writes its key.            *)
C10_NoOwnRecordChanged ==
    [][env' # env =>
        \A k \in DOMAIN env :
            ~AsOpened(k) => k \in DOMAIN env' /\ env'[k] = env[k]]_vars

\* the final commit followed an intermediate one and replaced records of the
\* earlier run, and the records of the intermediate commit are there
C10_Witness ==
    /\ pc = "done"
    /\ opened = PriorContainer
    /\ flushes = 1
    /\ env["b'image-000000001'"] = "b'PNG 3x5'"
    /\ env["b'image-000001000'"] = "b'PNG 4x6'"
    /\ env[NumSamplesStoreKey] = "b'1001'"

====
